---- MODULE Spec2Model ----
(***************************************************************************)
(* Authentication core of backend-acme: credential store, bcrypt password  *)
(* hashing, JWT issuance and verification, the two authenticateToken       *)
(* middlewares, the express routers and the auth / shipment / weight-entry *)
(* handlers.                                                               *)
(*                                                                         *)
(* Time is counted in hours (the unit of JWT_EXPIRES_IN = '1h').  A token  *)
(* is the record of its payload plus the signature it carries; an identity *)
(* is the mongoose document without the name and dob fields, which no      *)
(* operation modelled here reads.                                          *)
(***************************************************************************)
EXTENDS Integers, Sequences, FiniteSets, Bags, TLC

\* ---------------------------------------------------------------- bounds
MaxClock == 3
MaxUsers == 2
MaxTokenPairs == 2
MaxShipments == 1
MaxEntries == 2
MaxSaving == 1

\* ------------------------------------------------------ configuration
\* JWT_EXPIRES_IN = '1h'; REFRESH_TOKEN_EXPIRES_IN configured as '2h'
AccessTtl == 1
RefreshTtl == 2
Secret == "JWT_SECRET"

\* ------------------------------------------------------------- inputs
\* an email is the sequence of its characters
Emails == {<<"a">>, <<"A">>, <<"b">>}
Passwords == {"pw1", "pw2"}
Salts == {1}
NoRole == "undefined"
BodyRoles == {NoRole, "admin"}

VARIABLES users, nextId, issued, clock, inflight, resp, shipments, nextShipmentId,
          weightEntries, nextEntryId, saving

\* process.env and the loaded config, the medication collection, the
\* connection state of database.ts, the pending timers, the http server and
\* the running gracefulShutdown invocations, and the process exit code
VARIABLES env, config, medications, nextMedicationId,
          isConnecting, connectionAttempts, readyState, hasOpened, connecting,
          timers, server, shutdowns, exitCode

\* everything outside the auth, shipment and weight-entry routers
rest == <<env, config, medications, nextMedicationId,
          isConnecting, connectionAttempts, readyState, hasOpened, connecting,
          timers, server, shutdowns, exitCode>>

vars == <<users, nextId, issued, clock, inflight, resp, shipments, nextShipmentId,
          weightEntries, nextEntryId, saving, rest>>

\* ------------------------------------------------------ user schema
toLowerCase(c) ==
  CASE c = "A" -> "a"
    [] c = "B" -> "b"
    [] OTHER -> c

\* the email path's setters: lowercase: true, trim: true
emailSetter(email) == [i \in DOMAIN email |-> toLowerCase(email[i])]

\* a findOne whose filter is compared as sent, without the setters
findOneUncast(email) == {u \in users : u.email = email}

\* User.findOne({ email }): the filter is cast through the schema setters
findOne(email) == {u \in users : u.email = emailSetter(email)}

findById(id) == {u \in users : u._id = id}

\* ------------------------------------------------------ password.ts
\* bcrypt.hash: the digest depends on the salt, and the salt is embedded
hashPassword(password, salt) == [salt |-> salt, digest |-> <<salt, password>>]

\* bcrypt.compare: recompute with the embedded salt
comparePassword(password, hashedPassword) ==
  hashPassword(password, hashedPassword.salt).digest = hashedPassword.digest

\* ------------------------------------------------------ auth.controller.ts
\* const userResponse = user.toObject(); delete userResponse.passwordHash
deletePasswordHash(userDoc) ==
  [f \in DOMAIN userDoc \ {"passwordHash"} |-> userDoc[f]]

transformUserForAPI(userDoc) ==
  [id |-> userDoc._id,
   email |-> userDoc.email,
   createdAt |-> userDoc.createdAt,
   updatedAt |-> userDoc.updatedAt,
   role |-> userDoc.role]

\* ------------------------------------------------------ middleware/auth
\* payload of generateAccessToken / generateRefreshToken: userId and email
JwtPayload(user) == [userId |-> user.id, email |-> user.email]

\* jwt.sign(payload, secret, { expiresIn })
jwtSign(payload, expiresIn) ==
  payload @@ [iat |-> clock, exp |-> clock + expiresIn, sig |-> Secret]

\* the units parseExpiration knows, those ms() of jsonwebtoken knows in their
\* one-letter form, and the digits
Units == {"s", "m", "h", "d"}
MsUnits == Units \cup {"w", "y"}
Digits == {"0", "1", "2", "3", "4", "5", "6", "7", "8", "9"}

\* jwt.sign accepts the string expiresIn: ms(expiresIn) is defined for a
\* number followed by a unit and for a bare number
msDefined(expiresIn) ==
  \/ expiresIn.value # {} /\ expiresIn.unit \in MsUnits
  \/ expiresIn.unit \in Digits

\* parseExpiration: unit = expiresIn.slice(-1), value = parseInt of the rest
\* (NaN: {}); any other unit throws
parseExpiration(expiresIn) ==
  IF expiresIn.unit \in Units
    THEN [err |-> {}, value |-> expiresIn.value]
    ELSE [err |-> {[message |-> "Invalid expiration format", statusCode |-> 0]},
          value |-> {}]

\* what getTokenExpiration throws: the error of parseExpiration, or the
\* RangeError of toISOString on a Date of NaN
getTokenExpirationThrows(expiresIn) ==
  LET parsed == parseExpiration(expiresIn)
  IN  IF parsed.err # {} THEN parsed.err
      ELSE IF parsed.value = {} THEN {[message |-> "Invalid time value", statusCode |-> 0]}
      ELSE {}

\* what building the auth response throws under configuration c:
\* generateAccessToken, generateRefreshToken, then getTokenExpiration
authResponseThrowsUnder(c) ==
  IF ~msDefined(c.jwt.expiresIn) \/ ~msDefined(c.jwt.refreshExpiresIn)
    THEN {[message |-> "\"expiresIn\" should be a number of seconds or string representing a timespan",
           statusCode |-> 0]}
    ELSE getTokenExpirationThrows(c.jwt.expiresIn)

\* under the configuration the process has loaded
authResponseThrows == UNION {authResponseThrowsUnder(c) : c \in config}

generateAccessToken(user) == jwtSign(JwtPayload(user), AccessTtl)

generateRefreshToken(user) == jwtSign(JwtPayload(user), RefreshTtl)

decode(token) == [f \in DOMAIN token \ {"sig"} |-> token[f]]

NoPayload == [userId |-> 0]

\* a verify that takes a token for expired only at the instant of its exp
jwtVerifyExpiredAtExp(token, now) ==
  IF token.sig # Secret
    THEN [err |-> "JsonWebTokenError", payload |-> NoPayload]
  ELSE IF now = token.exp
    THEN [err |-> "TokenExpiredError", payload |-> NoPayload]
  ELSE [err |-> "none", payload |-> decode(token)]

\* jwt.verify(token, secret): structure, then signature, then exp
jwtVerify(token, now) ==
  IF token.sig # Secret
    THEN [err |-> "JsonWebTokenError", payload |-> NoPayload]
  ELSE IF now >= token.exp
    THEN [err |-> "TokenExpiredError", payload |-> NoPayload]
  ELSE [err |-> "none", payload |-> decode(token)]

verifyRefreshToken(token) == jwtVerify(token, clock)

\* ------------------------------------------------------ requests
NoToken == [userId |-> 0, email |-> <<>>, iat |-> 0, exp |-> 0, sig |-> "absent"]
Malformed == [userId |-> 0, email |-> <<>>, iat |-> 0, exp |-> 0, sig |-> "malformed"]

\* a token with an altered payload keeps the old signature, which no
\* longer matches
Tamper(token) == [token EXCEPT !.exp = MaxClock + 1, !.sig = "stale"]

\* the tokens a client can present: the ones the server handed out, their
\* tampered copies, and garbage
Presentable == issued \cup {Tamper(t) : t \in issued} \cup {Malformed}

NoHeader == [scheme |-> "none", token |-> NoToken]

\* the Authorization headers a client can send
Headers ==
  {NoHeader, [scheme |-> "Basic", token |-> Malformed]}
    \cup [scheme : {"Bearer"}, token : Presentable]

Idle == {}

NoData == [kind |-> "none"]

\* no response is being sent
NoResponse ==
  [route |-> "none", cred |-> NoHeader, status |-> 0, error |-> "",
   handler |-> "none", user |-> {}, data |-> NoData]

\* ------------------------------------------------------ env.ts
\* A duration setting is its text split as parseExpiration splits it: value
\* is parseInt of everything before the last character ({} when that is
\* NaN) and unit is the last character.
Duration(value, unit) == [value |-> value, unit |-> unit]

\* JWT_EXPIRES_IN and REFRESH_TOKEN_EXPIRES_IN as the tokens above are signed
ConfiguredEnv ==
  [NODE_ENV |-> "production",
   JWT_SECRET |-> Secret,
   JWT_EXPIRES_IN |-> Duration({AccessTtl}, "h"),
   REFRESH_TOKEN_EXPIRES_IN |-> Duration({RefreshTtl}, "h")]

NotLoaded == {}

\* envSchema.parse(process.env): JWT_SECRET is z.string().min(1), the two
\* durations are z.string(); the result is {} when parse throws
envSchemaParse(e) ==
  IF e.JWT_SECRET = "" THEN {}
  ELSE {[jwt |-> [secret |-> e.JWT_SECRET,
                  expiresIn |-> e.JWT_EXPIRES_IN,
                  refreshExpiresIn |-> e.REFRESH_TOKEN_EXPIRES_IN]]}

\* ------------------------------------------------------ process
\* process.exit has not been called
Running == {}

\* no mongoose.connect call is awaited by any caller of connectDB
Callers == {"startServer", "retry", "reconnect"}
NoCalls == [c \in Callers |-> 0]

\* the process once startServer has connected and server.listen has been
\* called, with the configured environment loaded
Serving ==
  /\ env = ConfiguredEnv
  /\ config = envSchemaParse(ConfiguredEnv)
  /\ medications = {}
  /\ nextMedicationId = 1
  /\ isConnecting = FALSE
  /\ connectionAttempts = 0
  /\ readyState = 1
  /\ hasOpened = TRUE
  /\ connecting = NoCalls
  /\ timers = EmptyBag
  /\ server = "listening"
  /\ shutdowns = <<>>
  /\ exitCode = Running

\* empty stores, no token handed out, no request taken up
Empty ==
  /\ users = {}
  /\ nextId = 1
  /\ issued = {}
  /\ clock = 0
  /\ inflight = Idle
  /\ resp = NoResponse
  /\ shipments = {}
  /\ nextShipmentId = 1
  /\ weightEntries = {}
  /\ nextEntryId = 1
  /\ saving = {}

Init == Empty /\ Serving

\* ------------------------------------------------------ app.ts
\* res.status(..).json(..) as the client sees it, with the request that
\* caused it: cred is the credential presented, user the req.user the
\* handler saw, handler the route handler that ran ("none": stopped before)
Response(route, cred, status, error, handler, user, data) ==
  [route |-> route, cred |-> cred, status |-> status, error |-> error,
   handler |-> handler, user |-> user, data |-> data]

ApiError(message, statusCode) == [message |-> message, statusCode |-> statusCode]

\* an Error that is not an ApiError, with its message
Error(message) == [message |-> message, statusCode |-> 0]

\* global error handler: every error passed to next(err) is rendered as 500;
\* the body carries err.message and err.stack when NODE_ENV is 'development'
errorHandler(err) ==
  LET isDevelopment == env.NODE_ENV = "development"
  IN  [status |-> 500, error |-> "Internal server error",
       body |-> [kind |-> "error",
                 message |-> IF isDevelopment THEN err.message ELSE "Something went wrong",
                 stack |-> IF isDevelopment THEN {err} ELSE {}]]

\* a handler wrapped in asyncHandler threw err
Thrown(route, cred, handler, user, err) ==
  Response(route, cred, errorHandler(err).status, errorHandler(err).error,
           handler, user, errorHandler(err).body)

\* the server takes up a new request: none is between its middleware and
\* its handler, and the previous response has been sent
Ready == inflight = Idle /\ resp = NoResponse

\* res.status(statusCode).json(response) completes: the response is with
\* the client and the server keeps nothing of it
resEnd ==
  /\ resp # NoResponse
  /\ resp' = NoResponse
  /\ UNCHANGED <<rest, users, nextId, issued, clock, inflight, shipments, nextShipmentId, weightEntries, nextEntryId, saving>>

\* ------------------------------------------------------ auth.middleware.ts
instanceof(error, class) ==
  \/ error = class
  \/ error = "TokenExpiredError" /\ class = "JsonWebTokenError"
  \/ error = "NotBeforeError" /\ class = "JsonWebTokenError"

Reject(status, error) ==
  [next |-> FALSE, status |-> status, error |-> error, user |-> {}]

handleAuthError(error) ==
  IF instanceof(error, "JsonWebTokenError") THEN Reject(401, "Invalid token")
  ELSE IF instanceof(error, "TokenExpiredError") THEN Reject(401, "Token expired")
  ELSE Reject(500, "Authentication error")

\* authHeader && authHeader.startsWith('Bearer ') ? authHeader.substring(7) : null
bearerToken(header) ==
  IF header.scheme = "Bearer" THEN header.token ELSE NoToken

\* a req.user that is the stored document itself (req.user = user)
reqUserWholeDocument(user, decoded) == user @@ [id |-> user._id]

\* the minimal user attached to the request
reqUser(user, decoded) ==
  [id |-> user._id,
   email |-> user.email,
   role |-> IF user.role # NoRole THEN user.role
            ELSE IF "role" \in DOMAIN decoded THEN decoded.role
            ELSE "user",
   createdAt |-> user.createdAt,
   updatedAt |-> user.updatedAt]

\* an authenticateToken that trusts the verified claim when the lookup
\* finds nobody
authenticateTokenTrustingClaim(header) ==
  LET token == bearerToken(header)
      verified == jwtVerify(token, clock)
      found == findById(verified.payload.userId)
      claimed == [id |-> verified.payload.userId, email |-> verified.payload.email,
                  role |-> "user", createdAt |-> 0, updatedAt |-> 0]
  IN  IF token = NoToken THEN Reject(401, "Access token required")
      ELSE IF verified.err # "none" THEN handleAuthError(verified.err)
      ELSE [next |-> TRUE, status |-> 0, error |-> "",
            user |-> IF found = {} THEN {claimed}
                     ELSE {reqUser(u, verified.payload) : u \in found}]

authenticateToken(header) ==
  LET token == bearerToken(header)
      verified == jwtVerify(token, clock)
      found == findById(verified.payload.userId)
  IN  IF token = NoToken THEN Reject(401, "Access token required")
      ELSE IF verified.err # "none" THEN handleAuthError(verified.err)
      ELSE IF found = {} THEN Reject(401, "User not found")
      ELSE [next |-> TRUE, status |-> 0, error |-> "",
            user |-> {reqUser(u, verified.payload) : u \in found}]

\* ------------------------------------------------------ middleware/auth
\* the authenticateToken of '../middleware/auth': const user = null
middlewareAuthAuthenticateToken(header) ==
  LET token == bearerToken(header)
      verified == jwtVerify(token, clock)
      user == {}
  IN  IF token = NoToken THEN Reject(401, "Access token required")
      ELSE IF verified.err # "none" THEN
        IF instanceof(verified.err, "TokenExpiredError")
          THEN Reject(401, "Token expired")
        ELSE IF instanceof(verified.err, "JsonWebTokenError")
          THEN Reject(401, "Invalid token")
        ELSE Reject(500, "Authentication failed")
      ELSE IF user = {} THEN Reject(401, "User not found")
      ELSE [next |-> TRUE, status |-> 0, error |-> "", user |-> user]

\* ------------------------------------------------------ routers
\* a middleware result r on a route: either the request goes on to the
\* handler (next()), or the middleware's response ends it
Use(route, header, r) ==
  /\ Ready
  /\ IF r.next
       THEN /\ inflight' = {[route |-> route, cred |-> header, user |-> r.user]}
            /\ UNCHANGED resp
       ELSE /\ resp' = Response(route, header, r.status, r.error, "none", {}, NoData)
            /\ UNCHANGED inflight
  /\ UNCHANGED <<rest, users, nextId, issued, clock, shipments, nextShipmentId, weightEntries, nextEntryId, saving>>

\* router.get('/me', authenticateToken, getProfile)
MeRoute(header) == Use("GET /auth/me", header, authenticateToken(header))

\* medication router: router.use(authenticateToken) of '../middleware/auth',
\* in front of every method and path under /medications
MedicationRouter(header) ==
  Use("/medications", header, middlewareAuthAuthenticateToken(header))

\* ------------------------------------------------------ auth.controller.ts
\* the email and password of a register / login request body
Credentials(email, password) ==
  [scheme |-> "credentials", token |-> NoToken, email |-> email, password |-> password]

AuthResponse(apiUser) ==
  [kind |-> "auth", user |-> apiUser,
   token |-> generateAccessToken(apiUser),
   refreshToken |-> generateRefreshToken(apiUser)]

TokensOf(authResponse) == {authResponse.token, authResponse.refreshToken}

register(email, password, role, salt) ==
  LET route == "POST /auth/register"
      existingUser == findOne(email)
      user == [_id |-> nextId,
               email |-> emailSetter(email),
               passwordHash |-> hashPassword(password, salt),
               role |-> IF role # NoRole THEN role ELSE "user",
               createdAt |-> clock,
               updatedAt |-> clock]
      apiUser == transformUserForAPI(deletePasswordHash(user))
      authResponse == AuthResponse(apiUser)
  IN  /\ Ready
      /\ IF existingUser # {}
           THEN /\ resp' = Thrown(route, Credentials(email, password), "register", {},
                                  ApiError("User already exists with this email", 409))
                /\ UNCHANGED <<users, nextId, issued>>
           ELSE /\ nextId <= MaxUsers
                /\ users' = users \cup {user}
                /\ nextId' = nextId + 1
                /\ IF authResponseThrows # {}
                     THEN /\ \E err \in authResponseThrows :
                               resp' = Thrown(route, Credentials(email, password),
                                              "register", {}, err)
                          /\ UNCHANGED issued
                     ELSE /\ Cardinality(issued \cup TokensOf(authResponse))
                               <= 2 * MaxTokenPairs
                          /\ issued' = issued \cup TokensOf(authResponse)
                          /\ resp' = Response(route, Credentials(email, password), 201, "",
                                              "register", {}, authResponse)
      /\ UNCHANGED <<rest, clock, inflight, shipments, nextShipmentId, weightEntries, nextEntryId, saving>>

login(email, password) ==
  LET route == "POST /auth/login"
      found == findOne(email)
  IN  /\ Ready
      /\ IF found = {}
           THEN /\ resp' = Thrown(route, Credentials(email, password), "login", {},
                                  ApiError("Invalid credentials", 401))
                /\ UNCHANGED issued
           ELSE \E user \in found :
                  IF ~comparePassword(password, user.passwordHash)
                    THEN /\ resp' = Thrown(route, Credentials(email, password), "login", {},
                                           ApiError("Invalid credentials", 401))
                         /\ UNCHANGED issued
                  ELSE IF authResponseThrows # {}
                    THEN /\ \E err \in authResponseThrows :
                              resp' = Thrown(route, Credentials(email, password),
                                             "login", {}, err)
                         /\ UNCHANGED issued
                    ELSE LET apiUser == transformUserForAPI(deletePasswordHash(user))
                             authResponse == AuthResponse(apiUser)
                         IN  /\ Cardinality(issued \cup TokensOf(authResponse)) <= 2 * MaxTokenPairs
                             /\ issued' = issued \cup TokensOf(authResponse)
                             /\ resp' = Response(route, Credentials(email, password), 200, "",
                                                 "login", {}, authResponse)
      /\ UNCHANGED <<rest, users, nextId, clock, inflight, shipments, nextShipmentId, weightEntries, nextEntryId, saving>>

\* router.post('/logout', logout): no middleware in front of the handler
logout(header) ==
  /\ Ready
  /\ resp' = Response("POST /auth/logout", header, 200, "", "logout", {}, NoData)
  /\ UNCHANGED <<rest, users, nextId, issued, clock, inflight, shipments, nextShipmentId, weightEntries, nextEntryId, saving>>

\* the refresh token of the request body
Body(token) == [scheme |-> "body", token |-> token]

\* a refresh that mints the new pair from the verified claim, without
\* looking the identity up
refreshTokenFromClaims(token) ==
  LET route == "POST /auth/refresh"
      decoded == verifyRefreshToken(token)
      apiUser == [id |-> decoded.payload.userId, email |-> decoded.payload.email,
                  createdAt |-> 0, updatedAt |-> 0, role |-> "user"]
      authResponse == AuthResponse(apiUser)
  IN  /\ Ready
      /\ IF token = NoToken \/ decoded.err # "none"
           THEN /\ resp' = Thrown(route, Body(token), "refreshToken", {},
                                  ApiError("Invalid or expired refresh token", 401))
                /\ UNCHANGED issued
           ELSE /\ Cardinality(issued \cup TokensOf(authResponse)) <= 2 * MaxTokenPairs
                /\ issued' = issued \cup TokensOf(authResponse)
                /\ resp' = Response(route, Body(token), 200, "", "refreshToken", {},
                                    authResponse)
      /\ UNCHANGED <<rest, users, nextId, clock, inflight, shipments, nextShipmentId, weightEntries, nextEntryId, saving>>

\* a refresh that saves the identity it found (user.save() stamps updatedAt)
refreshTokenSavingUser(token) ==
  LET route == "POST /auth/refresh"
      decoded == verifyRefreshToken(token)
      found == findById(decoded.payload.userId)
  IN  /\ Ready
      /\ IF token = NoToken \/ decoded.err # "none" \/ found = {}
           THEN /\ resp' = Thrown(route, Body(token), "refreshToken", {},
                                  ApiError("Invalid or expired refresh token", 401))
                /\ UNCHANGED <<issued, users>>
           ELSE \E user \in found :
                  LET saved == [user EXCEPT !.updatedAt = clock]
                      authResponse == AuthResponse(transformUserForAPI(deletePasswordHash(saved)))
                  IN  /\ Cardinality(issued \cup TokensOf(authResponse)) <= 2 * MaxTokenPairs
                      /\ issued' = issued \cup TokensOf(authResponse)
                      /\ users' = (users \ {user}) \cup {saved}
                      /\ resp' = Response(route, Body(token), 200, "", "refreshToken", {},
                                          authResponse)
      /\ UNCHANGED <<rest, nextId, clock, inflight, shipments, nextShipmentId, weightEntries, nextEntryId, saving>>

refreshToken(token) ==
  LET route == "POST /auth/refresh"
      decoded == verifyRefreshToken(token)
      found == findById(decoded.payload.userId)
      unauthorized == Thrown(route, Body(token), "refreshToken", {},
                             ApiError("Invalid or expired refresh token", 401))
  IN  /\ Ready
      /\ IF token = NoToken
           THEN /\ resp' = Thrown(route, Body(token), "refreshToken", {},
                                  ApiError("Refresh token is required", 400))
                /\ UNCHANGED issued
         ELSE IF decoded.err # "none" \/ found = {} \/ authResponseThrows # {}
           THEN /\ resp' = unauthorized
                /\ UNCHANGED issued
         ELSE \E user \in found :
                LET apiUser == transformUserForAPI(deletePasswordHash(user))
                    authResponse == AuthResponse(apiUser)
                IN  /\ Cardinality(issued \cup TokensOf(authResponse)) <= 2 * MaxTokenPairs
                    /\ issued' = issued \cup TokensOf(authResponse)
                    /\ resp' = Response(route, Body(token), 200, "", "refreshToken", {},
                                        authResponse)
      /\ UNCHANGED <<rest, users, nextId, clock, inflight, shipments, nextShipmentId, weightEntries, nextEntryId, saving>>

\* User.findById(userId).select('-passwordHash')
selectMinusPasswordHash(found) == {deletePasswordHash(u) : u \in found}

getProfile ==
  /\ inflight # Idle
  /\ resp = NoResponse
  /\ \E req \in inflight :
       /\ req.route = "GET /auth/me"
       /\ LET found == IF req.user = {} THEN {}
                       ELSE UNION {selectMinusPasswordHash(findById(u.id)) : u \in req.user}
          IN  IF req.user = {}
                THEN resp' = Thrown(req.route, req.cred, "getProfile", req.user,
                                    ApiError("User not authenticated", 401))
              ELSE IF found = {}
                THEN resp' = Thrown(req.route, req.cred, "getProfile", req.user,
                                    ApiError("User not found", 404))
              ELSE \E user \in found :
                     resp' = Response(req.route, req.cred, 200, "", "getProfile", req.user,
                                      [kind |-> "user", user |-> transformUserForAPI(user)])
  /\ inflight' = Idle
  /\ UNCHANGED <<rest, users, nextId, issued, clock, shipments, nextShipmentId, weightEntries, nextEntryId, saving>>


\* ------------------------------------------------------ shipment.controller.ts
\* shipment routes are mounted with no middleware: app.use('/api/v1/shipments', shipmentRoutes)
NoUserId == 0
BodyUserIds == 0..MaxUsers
ShipmentIds == 1..(MaxShipments + 1)

getAllShipments(header) ==
  /\ Ready
  /\ resp' = Response("GET /shipments", header, 200, "", "getAllShipments", {},
                      [kind |-> "shipments", items |-> shipments])
  /\ UNCHANGED <<rest, users, nextId, issued, clock, inflight, shipments, nextShipmentId, weightEntries, nextEntryId, saving>>

\* new Shipment(req.body).save(): userId is required by the schema
createShipment(header, userId) ==
  LET route == "POST /shipments"
      shipment == [_id |-> nextShipmentId, userId |-> userId]
  IN  /\ Ready
      /\ IF userId = NoUserId
           THEN /\ resp' = Response(route, header, 400, "Failed to create shipment",
                                    "createShipment", {}, NoData)
                /\ UNCHANGED <<shipments, nextShipmentId>>
           ELSE /\ nextShipmentId <= MaxShipments
                /\ shipments' = shipments \cup {shipment}
                /\ nextShipmentId' = nextShipmentId + 1
                /\ resp' = Response(route, header, 201, "", "createShipment", {},
                                    [kind |-> "shipments", items |-> {shipment}])
      /\ UNCHANGED <<rest, users, nextId, issued, clock, inflight, weightEntries, nextEntryId, saving>>

\* Shipment.findByIdAndUpdate(req.params.id, req.body, { new: true })
updateShipment(header, id, userId) ==
  LET route == "PUT /shipments/:id"
      found == {s \in shipments : s._id = id}
      updated == {IF userId = NoUserId THEN s ELSE [s EXCEPT !.userId = userId] : s \in found}
  IN  /\ Ready
      /\ IF found = {}
           THEN /\ resp' = Response(route, header, 404, "Shipment not found",
                                    "updateShipment", {}, NoData)
                /\ UNCHANGED shipments
           ELSE /\ shipments' = (shipments \ found) \cup updated
                /\ resp' = Response(route, header, 200, "", "updateShipment", {},
                                    [kind |-> "shipments", items |-> updated])
      /\ UNCHANGED <<rest, users, nextId, issued, clock, inflight, nextShipmentId, weightEntries, nextEntryId, saving>>

\* Shipment.findByIdAndDelete(req.params.id)
deleteShipment(header, id) ==
  LET route == "DELETE /shipments/:id"
      found == {s \in shipments : s._id = id}
  IN  /\ Ready
      /\ IF found = {}
           THEN /\ resp' = Response(route, header, 404, "Shipment not found",
                                    "deleteShipment", {}, NoData)
                /\ UNCHANGED shipments
           ELSE /\ shipments' = shipments \ found
                /\ resp' = Response(route, header, 200, "", "deleteShipment", {}, NoData)
      /\ UNCHANGED <<rest, users, nextId, issued, clock, inflight, nextShipmentId, weightEntries, nextEntryId, saving>>

\* ------------------------------------------------------ weightEntry.controller.ts
\* A request field is the set of its values: {} when the field is absent.
\* Dates are hours of the clock, so Date.now() is the clock.  The list
\* handler's startDate / endDate filter is left at its absent case and its
\* sortOrder at the default 'desc'.
\* Every handler below is reached through router.use(authenticateToken) of
\* auth.middleware.ts.  The middleware reads only the identity store and the
\* clock, which no weight-entry handler writes, so its lookup and the
\* handler's first store operation are taken as one step.
NoEntryId == 0
DefaultPage == 1
DefaultLimit == 50
ParamIds == NoEntryId..MaxEntries
Pages == {{}, {2}}
CreateBodies == [weight : {{70}}, recordedAt : {{}, {1}}, notes : {{}}]
UpdateBodies == [weight : {{}, {71}}, recordedAt : {{}, {1}}, notes : {{}, {"n"}}]
Queries ==
  [page : Pages, limit : {{1}}, sortBy : {{"weight"}}]
    \cup {[page |-> {}, limit |-> {}, sortBy |-> {}],
          [page |-> {}, limit |-> {101}, sortBy |-> {"userId"}]}

\* Types.ObjectId.isValid(id)
isValid(id) == id # NoEntryId

\* the value of a field that is present
ValueOf(field) == CHOOSE v \in field : TRUE

\* const { page = 1, limit = 50, sortBy = 'recordedAt' } = req.query
OrDefault(field, default) == IF field = {} THEN default ELSE ValueOf(field)

\* a handler's res.status(status).json({ success, message, data, timestamp }),
\* with the req.user, and the params, query and body, it ran on
WeightResponse(handler, route, header, user, params, status, message, data) ==
  Response(route, header, status, message, handler, {user}, data) @@ [params |-> params]

\* res.status(401) of the middleware in front of the router
Denied(route, header, r) ==
  resp' = Response(route, header, r.status, r.error, "none", {}, NoData)

\* the value a document holds at the path a sort names
SortKey(entry, sortBy) ==
  CASE sortBy = "weight" -> entry.weight
    [] sortBy = "recordedAt" -> entry.recordedAt
    [] sortBy = "createdAt" -> entry.createdAt
    [] OTHER -> entry.userId

\* .sort({ [sortBy]: -1 }): the orders a sort may return.  Documents with
\* equal keys come in whatever order the store produces for that query.
Sorted(found, sortBy) ==
  LET n == Cardinality(found)
  IN  {order \in [1..n -> found] :
         /\ \A i, j \in 1..n : i # j => order[i] # order[j]
         /\ \A i, j \in 1..n :
              i < j => SortKey(order[i], sortBy) >= SortKey(order[j], sortBy)}

\* .skip(skip).limit(limit)
SkipLimit(order, skip, limit) ==
  LET last == IF skip + limit < Len(order) THEN skip + limit ELSE Len(order)
  IN  SubSeq(order, skip + 1, last)

\* WeightEntry.find({ userId })
findByUser(userId) == {e \in weightEntries : e.userId = userId}

\* a findOne by _id alone
findOneAnyOwner(id, userId) == {e \in weightEntries : e._id = id}

\* WeightEntry.findOne({ _id, userId })
findOneOwned(id, userId) == {e \in weightEntries : e._id = id /\ e.userId = userId}

\* a duplicate lookup by recordedAt alone
findOneAtAnyUser(userId, recordedAt) == {e \in weightEntries : e.recordedAt = recordedAt}

\* WeightEntry.findOne({ userId, recordedAt })
findOneAt(userId, recordedAt) ==
  {e \in weightEntries : e.userId = userId /\ e.recordedAt = recordedAt}

getWeightEntries(header, query) ==
  LET route == "GET /weight-entries"
      r == authenticateToken(header)
      page == OrDefault(query.page, DefaultPage)
      limit == OrDefault(query.limit, DefaultLimit)
      sortBy == OrDefault(query.sortBy, "recordedAt")
      skip == (page - 1) * limit
  IN  /\ Ready
      /\ IF ~r.next THEN Denied(route, header, r)
         ELSE \E user \in r.user :
                \E order \in Sorted(findByUser(user.id), sortBy) :
                  resp' = WeightResponse("getWeightEntries", route, header, user, query, 200,
                            "Weight entries retrieved successfully",
                            [kind |-> "weightEntries",
                             items |-> SkipLimit(order, skip, limit)])
      /\ UNCHANGED <<rest, users, nextId, issued, clock, inflight, shipments, nextShipmentId,
                     weightEntries, nextEntryId, saving>>

NoEntry == [kind |-> "undefined"]

\* await weightEntry.save() of the suspended handler s: an insert for a new
\* document, an update of the modified paths by _id for a loaded one
save(s) ==
  LET stored == {e \in weightEntries : e._id = s.doc._id}
      touched == [s.doc EXCEPT !.updatedAt = IF s.modified = {} THEN @ ELSE clock]
      written == {[f \in DOMAIN e |->
                     IF f \in s.modified \cup {"updatedAt"} THEN touched[f] ELSE e[f]] :
                  e \in stored}
  IN  IF s.op = "create"
        THEN /\ weightEntries' = weightEntries \cup {s.doc}
             /\ resp' = WeightResponse("createWeightEntry", s.route, s.cred, s.user, s.params,
                          201, "Weight entry created successfully",
                          [kind |-> "weightEntry", entry |-> s.doc])
      ELSE IF stored = {} /\ s.modified # {}
        THEN /\ resp' = WeightResponse("updateWeightEntry", s.route, s.cred, s.user, s.params,
                          500, "Internal server error", NoEntry)
             /\ UNCHANGED weightEntries
      ELSE /\ weightEntries' = (weightEntries \ stored) \cup written
           /\ resp' = WeightResponse("updateWeightEntry", s.route, s.cred, s.user, s.params,
                        200, "Weight entry updated successfully",
                        [kind |-> "weightEntry", entry |-> touched])

\* the handler reaches its save: the store executes it next, or (wait) the
\* handler stays suspended while the store serves other requests first
awaitSave(s, wait) ==
  IF wait
    THEN /\ Cardinality(saving) < MaxSaving
         /\ saving' = saving \cup {s}
         /\ UNCHANGED <<weightEntries, resp>>
    ELSE save(s) /\ UNCHANGED saving

\* a waiting save is executed
resumeSave ==
  /\ resp = NoResponse
  /\ \E s \in saving :
       /\ save(s)
       /\ saving' = saving \ {s}
  /\ UNCHANGED <<rest, users, nextId, issued, clock, inflight, shipments, nextShipmentId,
                 nextEntryId>>

createWeightEntry(header, body, wait) ==
  LET route == "POST /weight-entries"
      handler == "createWeightEntry"
      r == authenticateToken(header)
      recordedAt == OrDefault(body.recordedAt, clock)
  IN  /\ Ready
      /\ IF ~r.next
           THEN /\ Denied(route, header, r)
                /\ UNCHANGED <<weightEntries, nextEntryId, saving>>
         ELSE \E user \in r.user :
                LET existingEntry == findOneAt(user.id, recordedAt)
                    weightEntry == [_id |-> nextEntryId,
                                    userId |-> user.id,
                                    weight |-> ValueOf(body.weight),
                                    recordedAt |-> recordedAt,
                                    notes |-> body.notes,
                                    createdAt |-> clock,
                                    updatedAt |-> clock]
                IN  IF existingEntry # {}
                      THEN /\ resp' = WeightResponse(handler, route, header, user, body, 409,
                                        "Weight entry already exists for this date", NoEntry)
                           /\ UNCHANGED <<weightEntries, nextEntryId, saving>>
                    ELSE /\ nextEntryId <= MaxEntries
                         /\ nextEntryId' = nextEntryId + 1
                         /\ awaitSave([op |-> "create", route |-> route, cred |-> header,
                                       user |-> user, params |-> body,
                                       doc |-> weightEntry, modified |-> {}], wait)
      /\ UNCHANGED <<rest, users, nextId, issued, clock, inflight, shipments, nextShipmentId>>

getWeightEntry(header, id) ==
  LET route == "GET /weight-entries/:id"
      handler == "getWeightEntry"
      r == authenticateToken(header)
  IN  /\ Ready
      /\ IF ~r.next THEN Denied(route, header, r)
         ELSE \E user \in r.user :
                LET found == findOneOwned(id, user.id)
                IN  IF ~isValid(id)
                      THEN resp' = WeightResponse(handler, route, header, user, [id |-> id],
                                     400, "Invalid weight entry ID", NoEntry)
                    ELSE IF found = {}
                      THEN resp' = WeightResponse(handler, route, header, user, [id |-> id],
                                     404, "Weight entry not found", NoEntry)
                    ELSE \E weightEntry \in found :
                           resp' = WeightResponse(handler, route, header, user, [id |-> id],
                                     200, "Weight entry retrieved successfully",
                                     [kind |-> "weightEntry", entry |-> weightEntry])
      /\ UNCHANGED <<rest, users, nextId, issued, clock, inflight, shipments, nextShipmentId,
                     weightEntries, nextEntryId, saving>>

\* an update that assigns notes whether or not the body holds it
assignFieldsAndNotes(weightEntry, body) ==
  [weightEntry EXCEPT
     !.weight = IF body.weight # {} THEN ValueOf(body.weight) ELSE @,
     !.recordedAt = IF body.recordedAt # {} THEN ValueOf(body.recordedAt) ELSE @,
     !.notes = body.notes]

\* if (x !== undefined) weightEntry.x = x, for weight, recordedAt and notes
assignFields(weightEntry, body) ==
  [weightEntry EXCEPT
     !.weight = IF body.weight # {} THEN ValueOf(body.weight) ELSE @,
     !.recordedAt = IF body.recordedAt # {} THEN ValueOf(body.recordedAt) ELSE @,
     !.notes = IF body.notes # {} THEN body.notes ELSE @]

updateWeightEntry(header, id, body, wait) ==
  LET route == "PUT /weight-entries/:id"
      handler == "updateWeightEntry"
      r == authenticateToken(header)
      params == [id |-> id] @@ body
  IN  /\ Ready
      /\ IF ~r.next
           THEN /\ Denied(route, header, r)
                /\ UNCHANGED <<weightEntries, saving>>
         ELSE \E user \in r.user :
                LET found == findOneOwned(id, user.id)
                IN  IF ~isValid(id)
                      THEN /\ resp' = WeightResponse(handler, route, header, user, [id |-> id],
                                        400, "Invalid weight entry ID", NoEntry)
                           /\ UNCHANGED <<weightEntries, saving>>
                    ELSE IF found = {}
                      THEN /\ resp' = WeightResponse(handler, route, header, user, [id |-> id],
                                        404, "Weight entry not found", NoEntry)
                           /\ UNCHANGED <<weightEntries, saving>>
                    ELSE \E weightEntry \in found :
                           LET doc == assignFields(weightEntry, body)
                           IN  awaitSave([op |-> "update", route |-> route, cred |-> header,
                                          user |-> user, params |-> params, doc |-> doc,
                                          modified |-> {f \in {"weight", "recordedAt", "notes"} :
                                                          doc[f] # weightEntry[f]}], wait)
      /\ UNCHANGED <<rest, users, nextId, issued, clock, inflight, shipments, nextShipmentId,
                     nextEntryId>>

\* WeightEntry.findOneAndDelete({ _id, userId })
deleteWeightEntry(header, id) ==
  LET route == "DELETE /weight-entries/:id"
      handler == "deleteWeightEntry"
      r == authenticateToken(header)
  IN  /\ Ready
      /\ IF ~r.next
           THEN /\ Denied(route, header, r)
                /\ UNCHANGED weightEntries
         ELSE \E user \in r.user :
                LET found == findOneOwned(id, user.id)
                IN  IF ~isValid(id)
                      THEN /\ resp' = WeightResponse(handler, route, header, user, [id |-> id],
                                        400, "Invalid weight entry ID", NoEntry)
                           /\ UNCHANGED weightEntries
                    ELSE IF found = {}
                      THEN /\ resp' = WeightResponse(handler, route, header, user, [id |-> id],
                                        404, "Weight entry not found", NoEntry)
                           /\ UNCHANGED weightEntries
                    ELSE /\ weightEntries' = weightEntries \ found
                         /\ resp' = WeightResponse(handler, route, header, user, [id |-> id],
                                      200, "Weight entry deleted successfully",
                                      [kind |-> "null"])
      /\ UNCHANGED <<rest, users, nextId, issued, clock, inflight, shipments, nextShipmentId,
                     nextEntryId, saving>>

\* ------------------------------------------------------ environment
\* the wall clock read by jwt.sign and jwt.verify only moves forward
Tick ==
  /\ resp = NoResponse
  /\ clock < MaxClock
  /\ clock' = clock + 1
  /\ UNCHANGED <<rest, users, nextId, issued, inflight, resp, shipments, nextShipmentId, weightEntries, nextEntryId, saving>>

\* seed script: await UserModel.deleteMany({})
clearDatabase ==
  /\ resp = NoResponse
  /\ users # {}
  /\ users' = {}
  /\ UNCHANGED <<rest, nextId, issued, clock, inflight, resp, shipments, nextShipmentId, weightEntries, nextEntryId, saving>>

Next ==
  \/ \E email \in Emails, password \in Passwords, role \in BodyRoles, salt \in Salts :
       register(email, password, role, salt)
  \/ \E email \in Emails, password \in Passwords : login(email, password)
  \/ \E header \in Headers : logout(header)
  \/ \E token \in Presentable \cup {NoToken} : refreshToken(token)
  \/ \E header \in Headers : MeRoute(header)
  \/ getProfile
  \/ \E header \in Headers : MedicationRouter(header)
  \/ resEnd
  \/ Tick
  \/ clearDatabase

Spec == Init /\ [][Next]_vars

\* the routes mounted without authentication middleware, next to the
\* guarded /auth/me
NextRoutes ==
  \/ \E email \in Emails, password \in Passwords, role \in BodyRoles, salt \in Salts :
       register(email, password, role, salt)
  \/ \E header \in Headers : logout(header)
  \/ \E header \in Headers : MeRoute(header)
  \/ getProfile
  \/ \E header \in Headers : getAllShipments(header)
  \/ \E header \in Headers, userId \in BodyUserIds : createShipment(header, userId)
  \/ \E header \in Headers, id \in ShipmentIds, userId \in BodyUserIds :
       updateShipment(header, id, userId)
  \/ \E header \in Headers, id \in ShipmentIds : deleteShipment(header, id)
  \/ resEnd

SpecRoutes == Init /\ [][NextRoutes]_vars

\* the access tokens the server handed out, as bearer credentials
AccessHeaders ==
  {NoHeader} \cup [scheme : {"Bearer"}, token : {t \in issued : t.exp = t.iat + AccessTtl}]

\* the identity a successful POST /auth/register { email, password, role }
\* stores at hour 0 as the id-th identity
Registered(id, email, password, role, salt) ==
  [_id |-> id,
   email |-> emailSetter(email),
   passwordHash |-> hashPassword(password, salt),
   role |-> IF role # NoRole THEN role ELSE "user",
   createdAt |-> 0,
   updatedAt |-> 0]

\* the stores and the tokens handed out after two registrations have been
\* answered: identity 1, which may have asked for the admin role, and
\* identity 2, each holding the token pair of its registration
Seeded ==
  /\ clock = 0
  /\ \E role \in BodyRoles :
       users = {Registered(1, <<"a">>, "pw1", role, 1),
                Registered(2, <<"b">>, "pw1", NoRole, 1)}
  /\ nextId = 3
  /\ issued = UNION {TokensOf(AuthResponse(transformUserForAPI(deletePasswordHash(u)))) :
                      u \in users}
  /\ inflight = Idle
  /\ resp = NoResponse
  /\ shipments = {}
  /\ nextShipmentId = 1
  /\ weightEntries = {}
  /\ nextEntryId = 1
  /\ saving = {}

\* the server after those two registrations
InitWeights == Seeded /\ Serving

\* the weight-entry router, each handler running to its response before the
\* next request is taken up
NextWeights ==
  \/ \E header \in AccessHeaders, query \in Queries : getWeightEntries(header, query)
  \/ \E header \in AccessHeaders, body \in CreateBodies :
       createWeightEntry(header, body, FALSE)
  \/ \E header \in AccessHeaders, id \in ParamIds : getWeightEntry(header, id)
  \/ \E header \in AccessHeaders, id \in ParamIds, body \in UpdateBodies :
       updateWeightEntry(header, id, body, FALSE)
  \/ \E header \in AccessHeaders, id \in ParamIds : deleteWeightEntry(header, id)
  \/ resEnd

SpecWeights == InitWeights /\ [][NextWeights]_vars

\* the writing handlers of the weight-entry router with requests overlapping:
\* a handler may be suspended at its save while others run
NextWeightsConcurrent ==
  \/ \E header \in AccessHeaders, body \in CreateBodies, wait \in BOOLEAN :
       createWeightEntry(header, body, wait)
  \/ \E header \in AccessHeaders, id \in ParamIds, wait \in BOOLEAN :
       \E body \in {b \in UpdateBodies : b.notes = {} /\ b.weight = {}} :
         updateWeightEntry(header, id, body, wait)
  \/ \E header \in AccessHeaders, id \in ParamIds : deleteWeightEntry(header, id)
  \/ resumeSave
  \/ resEnd

SpecWeightsConcurrent == InitWeights /\ [][NextWeightsConcurrent]_vars

\* ------------------------------------------------------ medication.controller.ts
\* A medication is its _id, userId, startDate and endDate (a set: {} when the
\* document has none); name, dosage, frequency and the timestamps are left
\* out, and a request's values for them are taken to pass their validators.
\* The handlers are modelled from the point where the router's authentication
\* has called next() with req.user set; each action is the route's
\* validate(...) chain followed by the handler.
MaxMedications == 1

FiveYears == 43800
OneYear == 8760

StartDates == {{}, {0}, {1}}
EndDates == {{}, {1}, {2}}
MedicationBodies == [startDate : StartDates, endDate : EndDates, userId : {{}, {2}}]

\* the req.user an authentication middleware attaches for a stored identity
RequestUsers == {reqUser(u, NoPayload) : u \in users}

\* body('startDate') of both validation chains: not in the future, not more
\* than five years ago
startDateValid(value) ==
  \A startDate \in value : ~(startDate > clock) /\ ~(startDate < clock - FiveYears)

\* body('endDate') of createMedicationValidation: compared with
\* new Date(req.body.startDate)
createEndDateValid(body) ==
  \A endDate \in body.endDate :
    /\ \A startDate \in body.startDate : ~(endDate <= startDate)
    /\ ~(endDate > clock + OneYear)

createMedicationValidation(body) ==
  /\ body.startDate # {}
  /\ startDateValid(body.startDate)
  /\ createEndDateValid(body)

\* body('endDate') of updateMedicationValidation:
\* startDate = req.body.startDate ? new Date(req.body.startDate) : null
updateEndDateValid(id, body) ==
  \A endDate \in body.endDate :
    /\ \A startDate \in body.startDate : ~(endDate <= startDate)
    /\ ~(endDate > clock + OneYear)

updateMedicationValidation(id, body) ==
  /\ isValid(id)
  /\ startDateValid(body.startDate)
  /\ updateEndDateValid(id, body)

\* handleValidationErrors: throw new ApiError('Validation failed', 400)
ValidationFailed(route, handler, user, params) ==
  Thrown(route, NoHeader, handler, {user}, ApiError("Validation failed", 400))
    @@ [params |-> params]

MedicationResponse(route, handler, user, params, status, error, found) ==
  Response(route, NoHeader, status, error, handler, {user},
           [kind |-> "medications", items |-> found]) @@ [params |-> params]

\* router.post('/', validate(createMedicationValidation), createMedication):
\* Medication.create({ ...req.body, userId: req.user?.id })
createMedication(user, body) ==
  LET route == "POST /medications"
      medication == [_id |-> nextMedicationId,
                     userId |-> user.id,
                     startDate |-> ValueOf(body.startDate),
                     endDate |-> body.endDate]
  IN  /\ Ready
      /\ IF ~createMedicationValidation(body)
           THEN /\ resp' = ValidationFailed(route, "none", user, body)
                /\ UNCHANGED <<medications, nextMedicationId>>
           ELSE /\ nextMedicationId <= MaxMedications
                /\ medications' = medications \cup {medication}
                /\ nextMedicationId' = nextMedicationId + 1
                /\ resp' = MedicationResponse(route, "createMedication", user, body,
                                              201, "", {medication})
      /\ UNCHANGED <<users, nextId, issued, clock, inflight, shipments, nextShipmentId,
                     weightEntries, nextEntryId, saving>>
      /\ UNCHANGED <<env, config, isConnecting, connectionAttempts, readyState, hasOpened,
                     connecting, timers, server, shutdowns, exitCode>>

\* the update document req.body applied to a stored medication
applyBody(m, body) ==
  [m EXCEPT !.startDate = IF body.startDate # {} THEN ValueOf(body.startDate) ELSE @,
            !.endDate = IF body.endDate # {} THEN body.endDate ELSE @,
            !.userId = IF body.userId # {} THEN ValueOf(body.userId) ELSE @]

\* router.put('/:id', validate(updateMedicationValidation), updateMedication):
\* Medication.findOneAndUpdate({ _id, userId: req.user?.id }, req.body, { new: true })
updateMedication(user, id, body) ==
  LET route == "PUT /medications/:id"
      params == [id |-> id] @@ body
      found == {m \in medications : m._id = id /\ m.userId = user.id}
      updated == {applyBody(m, body) : m \in found}
  IN  /\ Ready
      /\ IF ~updateMedicationValidation(id, body)
           THEN /\ resp' = ValidationFailed(route, "none", user, params)
                /\ UNCHANGED medications
         ELSE IF found = {}
           THEN /\ resp' = MedicationResponse(route, "updateMedication", user, params,
                                              404, "Not found", {})
                /\ UNCHANGED medications
         ELSE /\ medications' = (medications \ found) \cup updated
              /\ resp' = MedicationResponse(route, "updateMedication", user, params,
                                            200, "", updated)
      /\ UNCHANGED <<users, nextId, issued, clock, inflight, shipments, nextShipmentId,
                     weightEntries, nextEntryId, saving>>
      /\ UNCHANGED <<env, config, nextMedicationId, isConnecting, connectionAttempts,
                     readyState, hasOpened, connecting, timers, server, shutdowns, exitCode>>

\* router.delete('/:id', validate(medicationIdValidation), deleteMedication):
\* Medication.findOneAndDelete({ _id, userId: req.user?.id })
deleteMedication(user, id) ==
  LET route == "DELETE /medications/:id"
      found == {m \in medications : m._id = id /\ m.userId = user.id}
  IN  /\ Ready
      /\ IF ~isValid(id)
           THEN /\ resp' = ValidationFailed(route, "none", user, [id |-> id])
                /\ UNCHANGED medications
         ELSE IF found = {}
           THEN /\ resp' = MedicationResponse(route, "deleteMedication", user, [id |-> id],
                                              404, "Not found", {})
                /\ UNCHANGED medications
         ELSE /\ medications' = medications \ found
              /\ resp' = MedicationResponse(route, "deleteMedication", user, [id |-> id],
                                            200, "", found)
      /\ UNCHANGED <<users, nextId, issued, clock, inflight, shipments, nextShipmentId,
                     weightEntries, nextEntryId, saving>>
      /\ UNCHANGED <<env, config, nextMedicationId, isConnecting, connectionAttempts,
                     readyState, hasOpened, connecting, timers, server, shutdowns, exitCode>>

\* the medication handlers behind an authentication that admits the stored
\* identities, one request at a time, while the clock advances
NextMedications ==
  \/ \E user \in RequestUsers, body \in MedicationBodies : createMedication(user, body)
  \/ \E user \in RequestUsers, id \in NoEntryId..MaxMedications, body \in MedicationBodies :
       updateMedication(user, id, body)
  \/ \E user \in RequestUsers, id \in NoEntryId..MaxMedications : deleteMedication(user, id)
  \/ resEnd
  \/ Tick

SpecMedications == InitWeights /\ [][NextMedications]_vars

\* ------------------------------------------------------ database.ts
\* readyState is mongoose.connection.readyState (0 disconnected, 1 connected,
\* 2 connecting, 3 disconnecting) and hasOpened tells whether the connection
\* was ever open.  connecting[c] counts the mongoose.connect calls a
\* connectDB invoked by c is awaiting.  timers is the bag of pending
\* setTimeout callbacks of database.ts, each with its delay and the time
\* left until it fires, in milliseconds.  Time passes in steps of
\* RETRY_DELAY, and only while no timer is due (elapse); an awaited connect,
\* close or disconnect may complete at any moment.
MaxTimers == 2
MaxSignals == 2

MAX_RETRY_ATTEMPTS == 5
RETRY_DELAY == 5000
RETRY_MULTIPLIER == 2
FORCE_DELAY == 10000

http == <<users, nextId, issued, clock, inflight, resp, shipments, nextShipmentId,
          weightEntries, nextEntryId, saving>>

Timer(callback, delay) == [callback |-> callback, delay |-> delay, left |-> delay]

\* the mongoose.connect calls awaited, over all callers
InFlight == connecting["startServer"] + connecting["retry"] + connecting["reconnect"]

RECURSIVE pow(_, _)
pow(base, exponent) == IF exponent = 0 THEN 1 ELSE base * pow(base, exponent - 1)

\* connectDB up to its await, called by caller when the flag isConnecting
\* reads flag: return if a connection is in progress or established, else
\* set the flag and call mongoose.connect
connectDB(caller, flag) ==
  IF flag \/ readyState = 1
    THEN /\ isConnecting' = flag
         /\ UNCHANGED <<connecting, readyState>>
    ELSE /\ isConnecting' = TRUE
         /\ connecting' = [connecting EXCEPT ![caller] = @ + 1]
         /\ readyState' = 2

\* ------------------------------------------------------ server.ts
\* server is the http.Server: created, starting (startServer awaits
\* connectDB), listening, closing (close() called, connections draining) or
\* closed.  shutdowns holds the gracefulShutdown invocations in the order
\* they began; each owns a force timer, with left the time until it fires.
Signals == {"SIGTERM", "SIGINT"}

\* gracefulShutdown(signal) up to its first await: the force timer is set and
\* server.close(callback) is called; close reports ERR_SERVER_NOT_RUNNING to
\* the callback of a server that is not listening
gracefulShutdown(signal) ==
  /\ Len(shutdowns) < MaxSignals
  /\ shutdowns' = Append(shutdowns,
                         [signal |-> signal, phase |-> "closing",
                          err |-> server # "listening", left |-> FORCE_DELAY])
  /\ server' = IF server = "listening" THEN "closing" ELSE server

\* import { config } from './config': envSchema.parse(process.env), and
\* process.exit(1) when it throws
loadConfig ==
  /\ exitCode = Running
  /\ config = NotLoaded
  /\ server = "created"
  /\ IF envSchemaParse(env) = {}
       THEN exitCode' = {1} /\ UNCHANGED config
       ELSE config' = envSchemaParse(env) /\ UNCHANGED exitCode
  /\ UNCHANGED <<http, env, medications, nextMedicationId, isConnecting, connectionAttempts,
                 readyState, hasOpened, connecting, timers, server, shutdowns>>

\* startServer() up to await connectDB(); server.listen follows at once when
\* connectDB returns without connecting
startServer ==
  /\ exitCode = Running
  /\ config # NotLoaded
  /\ server = "created"
  /\ connectDB("startServer", isConnecting)
  /\ server' = IF isConnecting \/ readyState = 1 THEN "listening" ELSE "starting"
  /\ UNCHANGED <<http, env, config, medications, nextMedicationId, connectionAttempts,
                 hasOpened, timers, shutdowns, exitCode>>

\* the continuation of startServer after await connectDB(): server.listen
listen == IF server = "starting" THEN "listening" ELSE server

\* await mongoose.connect(...) of a connectDB called by caller resolves
connectResolved(caller) ==
  /\ exitCode = Running
  /\ connecting[caller] > 0
  /\ connecting' = [connecting EXCEPT ![caller] = @ - 1]
  /\ readyState' = 1
  /\ hasOpened' = TRUE
  /\ connectionAttempts' = 0
  /\ isConnecting' = FALSE
  /\ server' = IF caller = "startServer" THEN listen ELSE server
  /\ UNCHANGED <<http, env, config, medications, nextMedicationId, timers, shutdowns,
                 exitCode>>

\* await mongoose.connect(...) of a connectDB called by caller rejects: the
\* catch block counts the attempt and schedules a retry, or throws once
\* MAX_RETRY_ATTEMPTS is reached; finally resets the flag.  The throw ends
\* startServer with process.exit(1), is logged by the reconnect timer, and
\* is an unhandled rejection of the retry timer's callback, on which
\* server.ts runs gracefulShutdown
connectRejected(caller) ==
  LET attempts == connectionAttempts + 1
      delay == RETRY_DELAY * pow(RETRY_MULTIPLIER, attempts - 1)
  IN  /\ exitCode = Running
      /\ connecting[caller] > 0
      /\ connecting' = [connecting EXCEPT ![caller] = @ - 1]
      /\ readyState' = IF readyState = 1 THEN 1 ELSE IF InFlight > 1 THEN 2 ELSE 0
      /\ connectionAttempts' = attempts
      /\ isConnecting' = FALSE
      /\ IF attempts < MAX_RETRY_ATTEMPTS
           THEN /\ timers' = timers (+) SetToBag({Timer("retry", delay)})
                /\ server' = IF caller = "startServer" THEN listen ELSE server
                /\ UNCHANGED <<shutdowns, exitCode>>
         ELSE IF caller = "startServer"
           THEN /\ exitCode' = {1}
                /\ UNCHANGED <<timers, server, shutdowns>>
         ELSE IF caller = "retry"
           THEN /\ gracefulShutdown("unhandledRejection")
                /\ UNCHANGED <<timers, exitCode>>
         ELSE UNCHANGED <<timers, server, shutdowns, exitCode>>
      /\ UNCHANGED <<http, env, config, medications, nextMedicationId, hasOpened>>

\* the retry timer fires: isConnecting = false; await connectDB()
retryTimer ==
  /\ exitCode = Running
  /\ \E t \in BagToSet(timers) :
       /\ t.callback = "retry"
       /\ t.left = 0
       /\ timers' = timers (-) SetToBag({t})
       /\ connectDB("retry", FALSE)
  /\ UNCHANGED <<http, env, config, medications, nextMedicationId, connectionAttempts,
                 hasOpened, server, shutdowns, exitCode>>

\* the timer set by the 'disconnected' handler fires: await connectDB()
reconnectTimer ==
  /\ exitCode = Running
  /\ \E t \in BagToSet(timers) :
       /\ t.callback = "reconnect"
       /\ t.left = 0
       /\ timers' = timers (-) SetToBag({t})
       /\ connectDB("reconnect", isConnecting)
  /\ UNCHANGED <<http, env, config, medications, nextMedicationId, connectionAttempts,
                 hasOpened, server, shutdowns, exitCode>>

\* mongoose.connection.on('disconnected'): the handler's effect on the timers
onDisconnected ==
  IF ~isConnecting /\ connectionAttempts < MAX_RETRY_ATTEMPTS
    THEN timers (+) SetToBag({Timer("reconnect", RETRY_DELAY)})
    ELSE timers

\* the open connection is lost and mongoose emits 'disconnected'
disconnected ==
  /\ exitCode = Running
  /\ readyState = 1
  /\ BagCardinality(timers) + InFlight < MaxTimers
  /\ readyState' = 0
  /\ timers' = onDisconnected
  /\ UNCHANGED <<http, env, config, medications, nextMedicationId, isConnecting,
                 connectionAttempts, hasOpened, connecting, server, shutdowns, exitCode>>

\* the driver regains a connection that had been open and mongoose emits
\* 'reconnected': connectionAttempts = 0
reconnected ==
  /\ exitCode = Running
  /\ readyState = 0
  /\ hasOpened
  /\ readyState' = 1
  /\ connectionAttempts' = 0
  /\ UNCHANGED <<http, env, config, medications, nextMedicationId, isConnecting, hasOpened,
                 connecting, timers, server, shutdowns, exitCode>>

\* process.on('SIGTERM' / 'SIGINT', () => gracefulShutdown(signal))
signal(sig) ==
  /\ exitCode = Running
  /\ gracefulShutdown(sig)
  /\ UNCHANGED <<http, env, config, medications, nextMedicationId, isConnecting,
                 connectionAttempts, readyState, hasOpened, connecting, timers, exitCode>>

\* the last connection of the closing server ends and it emits 'close': the
\* callbacks registered by server.close run in order.  The invocation that
\* closed the listening server goes on to dbGracefulShutdown, which calls
\* mongoose.disconnect(); an invocation that found the server already
\* closing gets the error and ends in process.exit(1)
serverClosed ==
  LET failed == {i \in DOMAIN shutdowns :
                   shutdowns[i].phase = "closing" /\ shutdowns[i].err}
  IN  /\ exitCode = Running
      /\ server = "closing"
      /\ server' = "closed"
      /\ shutdowns' = [i \in DOMAIN shutdowns |->
                         IF shutdowns[i].phase # "closing" THEN shutdowns[i]
                         ELSE IF shutdowns[i].err
                           THEN [shutdowns[i] EXCEPT !.phase = "failed"]
                         ELSE [shutdowns[i] EXCEPT !.phase = "dbClosing"]]
      /\ readyState' = 3
      /\ exitCode' = IF failed # {} THEN {1} ELSE exitCode
      /\ UNCHANGED <<http, env, config, medications, nextMedicationId, isConnecting,
                     connectionAttempts, hasOpened, connecting, timers>>

\* the callback of a server.close() on a server that was not running is
\* called with the error: reject, catch, process.exit(1)
closeFailed(i) ==
  /\ exitCode = Running
  /\ server # "closing"
  /\ shutdowns[i].phase = "closing"
  /\ shutdowns[i].err
  /\ shutdowns' = [shutdowns EXCEPT ![i].phase = "failed"]
  /\ exitCode' = {1}
  /\ UNCHANGED <<http, env, config, medications, nextMedicationId, isConnecting,
                 connectionAttempts, readyState, hasOpened, connecting, timers, server>>

\* a gracefulShutdown that exits 0 whether or not the database closed
dbCloseFailedExitingZero(i) ==
  /\ exitCode = Running
  /\ shutdowns[i].phase = "dbClosing"
  /\ shutdowns' = [shutdowns EXCEPT ![i].phase = "failed"]
  /\ exitCode' = {0}
  /\ UNCHANGED <<http, env, config, medications, nextMedicationId, isConnecting,
                 connectionAttempts, readyState, hasOpened, connecting, timers, server>>

\* await dbGracefulShutdown() throws: mongoose.disconnect() rejected; catch,
\* clearTimeout, process.exit(1)
dbCloseFailed(i) ==
  /\ exitCode = Running
  /\ shutdowns[i].phase = "dbClosing"
  /\ shutdowns' = [shutdowns EXCEPT ![i].phase = "failed"]
  /\ exitCode' = {1}
  /\ UNCHANGED <<http, env, config, medications, nextMedicationId, isConnecting,
                 connectionAttempts, readyState, hasOpened, connecting, timers, server>>

\* await dbGracefulShutdown() returns: mongoose.disconnect() resolved, having
\* emitted 'disconnected'; clearTimeout, process.exit(0)
dbClosed(i) ==
  /\ exitCode = Running
  /\ shutdowns[i].phase = "dbClosing"
  /\ shutdowns' = [shutdowns EXCEPT ![i].phase = "done"]
  /\ readyState' = 0
  /\ timers' = onDisconnected
  /\ exitCode' = {0}
  /\ UNCHANGED <<http, env, config, medications, nextMedicationId, isConnecting,
                 connectionAttempts, hasOpened, connecting, server>>

\* the force timer of invocation i fires after 10 seconds: process.exit(1)
forceShutdown(i) ==
  /\ exitCode = Running
  /\ shutdowns[i].phase \in {"closing", "dbClosing"}
  /\ shutdowns[i].left = 0
  /\ shutdowns' = [shutdowns EXCEPT ![i].phase = "forced"]
  /\ exitCode' = {1}
  /\ UNCHANGED <<http, env, config, medications, nextMedicationId, isConnecting,
                 connectionAttempts, readyState, hasOpened, connecting, timers, server>>

\* a pending timer, or a running shutdown's force timer, after RETRY_DELAY
Elapsed(t) == [t EXCEPT !.left = @ - RETRY_DELAY]

Pending(i) == shutdowns[i].phase \in {"closing", "dbClosing"}

\* RETRY_DELAY milliseconds pass with no timer due
elapse ==
  /\ exitCode = Running
  /\ timers # EmptyBag \/ \E i \in DOMAIN shutdowns : Pending(i)
  /\ \A t \in BagToSet(timers) : t.left > 0
  /\ \A i \in DOMAIN shutdowns : Pending(i) => shutdowns[i].left > 0
  /\ timers' = BagOfAll(Elapsed, timers)
  /\ shutdowns' = [i \in DOMAIN shutdowns |->
                     IF Pending(i) THEN Elapsed(shutdowns[i]) ELSE shutdowns[i]]
  /\ UNCHANGED <<http, env, config, medications, nextMedicationId, isConnecting,
                 connectionAttempts, readyState, hasOpened, connecting, server, exitCode>>

\* node has started the process with environment e: nothing is imported yet
Booting(e) ==
  /\ env = e
  /\ config = NotLoaded
  /\ medications = {}
  /\ nextMedicationId = 1
  /\ isConnecting = FALSE
  /\ connectionAttempts = 0
  /\ readyState = 0
  /\ hasOpened = FALSE
  /\ connecting = NoCalls
  /\ timers = EmptyBag
  /\ server = "created"
  /\ shutdowns = <<>>
  /\ exitCode = Running

\* the process from the moment node starts it, with the environment as
\* configured and no identity stored
InitServer == Empty /\ Booting(ConfiguredEnv)

\* start-up, the connection life cycle and the shutdown it can end in
NextServer ==
  \/ loadConfig
  \/ startServer
  \/ \E caller \in Callers : connectResolved(caller)
  \/ \E caller \in Callers : connectRejected(caller)
  \/ retryTimer
  \/ reconnectTimer
  \/ disconnected
  \/ reconnected
  \/ serverClosed
  \/ \E i \in DOMAIN shutdowns : closeFailed(i)
  \/ \E i \in DOMAIN shutdowns : dbCloseFailed(i)
  \/ \E i \in DOMAIN shutdowns : dbClosed(i)
  \/ \E i \in DOMAIN shutdowns : forceShutdown(i)
  \/ elapse

SpecServer == InitServer /\ [][NextServer]_vars

\* the process under signals: start-up with the database reachable, then
\* SIGTERM / SIGINT at any moment, also during a shutdown
NextShutdown ==
  \/ loadConfig
  \/ startServer
  \/ \E caller \in Callers : connectResolved(caller)
  \/ \E sig \in Signals : signal(sig)
  \/ serverClosed
  \/ \E i \in DOMAIN shutdowns : closeFailed(i)
  \/ \E i \in DOMAIN shutdowns : dbCloseFailed(i)
  \/ \E i \in DOMAIN shutdowns : dbClosed(i)
  \/ \E i \in DOMAIN shutdowns : forceShutdown(i)
  \/ elapse

SpecShutdown == InitServer /\ [][NextShutdown]_vars

\* time passes, and a force timer fires once its 10 seconds have passed
ForceTimers == \E i \in DOMAIN shutdowns : forceShutdown(i)

SpecShutdownFair == SpecShutdown /\ WF_vars(elapse) /\ WF_vars(ForceTimers)

\* ------------------------------------------------------ deployments
\* The process started under any of these environments, against an empty
\* database or one that already holds identities, whose clients hold tokens
\* signed with the same JWT_SECRET.  The duration texts are '1h', '1x', '60' and 'h' for
\* JWT_EXPIRES_IN and '2h', '2x' for REFRESH_TOKEN_EXPIRES_IN.
Environments ==
  [NODE_ENV : {"production", "development"},
   JWT_SECRET : {Secret, ""},
   JWT_EXPIRES_IN : {Duration({AccessTtl}, "h"), Duration({AccessTtl}, "x"),
                     Duration({6}, "0"), Duration({}, "h")},
   REFRESH_TOKEN_EXPIRES_IN : {Duration({RefreshTtl}, "h"), Duration({RefreshTtl}, "x")}]

InitDeployed == (Empty \/ Seeded) /\ \E e \in Environments : Booting(e)

\* server.listen has been called and the process runs
Listening == server = "listening" /\ exitCode = Running

\* start-up followed by the requests that end in an auth response
NextConfig ==
  \/ loadConfig
  \/ startServer
  \/ connectResolved("startServer")
  \/ Listening /\ \E email \in Emails, password \in Passwords, role \in BodyRoles,
                     salt \in Salts : register(email, password, role, salt)
  \/ Listening /\ \E email \in Emails, password \in Passwords : login(email, password)
  \/ Listening /\ \E token \in issued \cup {NoToken} : refreshToken(token)
  \/ resEnd

SpecConfig == InitDeployed /\ [][NextConfig]_vars

\* ------------------------------------------------------ store faults
\* the error a rejected store operation carries: the driver's own text
StoreError == Error("MongoNetworkError: connection closed")

ShipmentHandlers ==
  [getAllShipments |-> [route |-> "GET /shipments", error |-> "Failed to fetch shipments"],
   createShipment |-> [route |-> "POST /shipments", error |-> "Failed to create shipment"],
   updateShipment |-> [route |-> "PUT /shipments/:id", error |-> "Failed to update shipment"],
   deleteShipment |-> [route |-> "DELETE /shipments/:id", error |-> "Failed to delete shipment"]]

\* the catch block of a shipment handler whose store operation rejected:
\* getAllShipments answers 500 with its fixed text, the others answer 400
\* with message: (error as Error).message
shipmentCatch(handler, header, error) ==
  /\ Ready
  /\ resp' = IF handler = "getAllShipments"
               THEN Response(ShipmentHandlers[handler].route, header, 500,
                             ShipmentHandlers[handler].error, handler, {}, NoData)
               ELSE Response(ShipmentHandlers[handler].route, header, 400,
                             ShipmentHandlers[handler].error, handler, {},
                             [kind |-> "error", message |-> error.message, stack |-> {}])
  /\ UNCHANGED <<rest, users, nextId, issued, clock, inflight, shipments, nextShipmentId,
                 weightEntries, nextEntryId, saving>>

AsyncHandlers ==
  [register |-> "POST /auth/register",
   login |-> "POST /auth/login",
   getMedications |-> "GET /medications"]

\* a store operation rejects inside a handler that hands its errors to
\* next(): register and login through asyncHandler, the medication handlers
\* through their catch block
nextError(handler, error) ==
  /\ Ready
  /\ resp' = Thrown(AsyncHandlers[handler], NoHeader, handler, {}, error)
  /\ UNCHANGED <<rest, users, nextId, issued, clock, inflight, shipments, nextShipmentId,
                 weightEntries, nextEntryId, saving>>

\* the catch block of createWeightEntry, reached when a store operation of
\* the handler rejects after the authentication has passed
createWeightEntryCatch(header, body, error) ==
  LET r == authenticateToken(header)
  IN  /\ Ready
      /\ r.next
      /\ \E user \in r.user :
           resp' = WeightResponse("createWeightEntry", "POST /weight-entries", header, user,
                                  body, 500, "Internal server error", NoEntry)
      /\ UNCHANGED <<rest, users, nextId, issued, clock, inflight, shipments, nextShipmentId,
                     weightEntries, nextEntryId, saving>>

\* a handler's store operation rejects
storeFault ==
  \/ \E handler \in DOMAIN ShipmentHandlers, header \in AccessHeaders :
       shipmentCatch(handler, header, StoreError)
  \/ \E handler \in DOMAIN AsyncHandlers : nextError(handler, StoreError)
  \/ \E header \in AccessHeaders, body \in CreateBodies :
       createWeightEntryCatch(header, body, StoreError)

\* start-up, then requests served while store operations may reject
NextFaults ==
  \/ loadConfig
  \/ startServer
  \/ connectResolved("startServer")
  \/ Listening /\ \E email \in Emails, password \in Passwords : login(email, password)
  \/ Listening /\ \E header \in AccessHeaders, userId \in BodyUserIds :
                    createShipment(header, userId)
  \/ Listening /\ \E handler \in DOMAIN ShipmentHandlers, header \in AccessHeaders :
                    shipmentCatch(handler, header, StoreError)
  \/ Listening /\ \E handler \in DOMAIN AsyncHandlers : nextError(handler, StoreError)
  \/ Listening /\ \E header \in AccessHeaders, body \in CreateBodies :
                    createWeightEntryCatch(header, body, StoreError)
  \/ resEnd

SpecFaults == InitDeployed /\ [][NextFaults]_vars

\* ======================================================== properties

\* a request has just been answered in this step
Answered == resp = NoResponse /\ resp' # NoResponse

\* a middleware has just called next() in this step
Passed == inflight = Idle /\ inflight' # Idle

\* the credential is a bearer token the server signed, not yet expired, of
\* an identity now in the store
ValidBearer(cred) ==
  /\ cred.scheme = "Bearer"
  /\ cred.token \in issued
  /\ clock < cred.token.exp
  /\ \E u \in users : u._id = cred.token.userId

\* user is exactly the id / email / role view of the stored identity id
IsViewOf(user, id) ==
  /\ user # {}
  /\ \A v \in user : \E u \in users :
       u._id = id /\ v.id = u._id /\ v.email = u.email /\ v.role = u.role

\* C1: a guarded route's handler is reached only by a request whose bearer
\* token was signed by the server, is unexpired, and names an identity in the
\* store at that moment, with req.user set to that identity's id, email and
\* role; every other request to the route is answered 401 by the middleware
\* and the handler runs only on a request the middleware passed.
C1_GateAdmitsOnlyResolvedIdentity ==
  [][ /\ Passed =>
           \A req \in inflight' :
             /\ ValidBearer(req.cred)
             /\ IsViewOf(req.user, req.cred.token.userId)
      /\ (Answered /\ resp'.route = "GET /auth/me" /\ resp'.handler = "none") =>
           /\ resp'.status = 401
           /\ ~ValidBearer(resp'.cred)
      /\ (Answered /\ resp'.handler = "getProfile") =>
           /\ inflight # Idle
           /\ \A req \in inflight : resp'.user = req.user /\ resp'.cred = req.cred
    ]_vars

\* C1 witness: a request has passed the middleware of GET /auth/me and its
\* handler is about to run with req.user set
C1_Witness ==
  \E req \in inflight : req.route = "GET /auth/me" /\ req.user # {}

PublicHandlers == {"none", "register", "login", "refreshToken"}

\* C2: no handler other than register, login and refresh runs for a request
\* without a valid bearer token (one the server signed, resolved to req.user).
C2_EveryOtherRouteRequiresToken ==
  resp.handler \notin PublicHandlers =>
    /\ resp.cred.scheme = "Bearer"
    /\ resp.cred.token \in issued
    /\ resp.user # {}

\* C3: the middleware of auth.middleware.ts answers 'Token expired' to a
\* token the server signed whose exp has passed, and 'Invalid token' only to
\* a token whose structure or signature is bad.
C3_ExpiredAndInvalidDistinguished ==
  [][ (Answered /\ resp'.route = "GET /auth/me" /\ resp'.handler = "none"
         /\ resp'.cred.scheme = "Bearer") =>
        LET token == resp'.cred.token
        IN  /\ (token \in issued /\ clock >= token.exp) => resp'.error = "Token expired"
            /\ resp'.error = "Invalid token" => token \notin issued
    ]_vars

\* C4: a request to /medications with a valid, unexpired access token of an
\* identity in the store is not stopped by the medication router's
\* authentication middleware.
C4_MedicationsReachableWithValidToken ==
  [][ (Answered /\ resp'.route = "/medications" /\ resp'.handler = "none") =>
        ~ValidBearer(resp'.cred)
    ]_vars

\* C5: verifying an issued token before its expiry returns a claim with the
\* identity's id, email and role; verifying it after its duration has
\* elapsed fails with the expired-token error.
C5_VerifyReturnsIdEmailRole ==
  \A t \in issued : \A u \in users :
    u._id = t.userId =>
      /\ clock < t.exp =>
           LET v == jwtVerify(t, clock)
           IN  /\ v.err = "none"
               /\ v.payload.userId = u._id
               /\ v.payload.email = u.email
               /\ "role" \in DOMAIN v.payload
               /\ v.payload.role = u.role
      /\ clock > t.exp => jwtVerify(t, clock).err = "TokenExpiredError"

\* C6: once verification of an issued token fails as expired, no later
\* verification of it succeeds, whatever request or clock step comes between.
C6_ExpiredStaysExpired ==
  [][ \A t \in issued :
        jwtVerify(t, clock).err = "TokenExpiredError" => jwtVerify(t, clock').err # "none"
    ]_vars

\* C6 witness: a token was turned down after its expiry and the clock has
\* moved past exp
C6_Witness ==
  /\ resp.route = "GET /auth/me"
  /\ resp.status = 401
  /\ resp.cred.token \in issued
  /\ clock > resp.cred.token.exp

\* the token jwt.sign produces now for identity u with the given lifetime
FreshToken(u, ttl) ==
  [userId |-> u._id, email |-> u.email, iat |-> clock, exp |-> clock + ttl, sig |-> Secret]

\* C7: a refresh answers 200 only for a refresh token the server signed,
\* unexpired, of an identity in the store; the pair it returns is signed now
\* from the stored identity; any other refresh issues no token.
C7_RefreshReResolvesIdentity ==
  [][ (Answered /\ resp'.route = "POST /auth/refresh") =>
        LET token == resp'.cred.token
        IN  /\ resp'.status = 200 =>
                 /\ token \in issued
                 /\ clock < token.exp
                 /\ \E u \in users :
                      /\ u._id = token.userId
                      /\ resp'.data.user.id = u._id
                      /\ resp'.data.user.email = u.email
                      /\ resp'.data.user.role = u.role
                      /\ resp'.data.token = FreshToken(u, AccessTtl)
                      /\ resp'.data.refreshToken = FreshToken(u, RefreshTtl)
                 /\ issued' = issued \cup {resp'.data.token, resp'.data.refreshToken}
            /\ resp'.status # 200 => issued' = issued
            /\ (\A u \in users : u._id # token.userId) =>
                 resp'.status # 200 /\ issued' = issued
    ]_vars

\* C7 witness: a refresh succeeded with a refresh token issued earlier
C7_Witness ==
  /\ resp.route = "POST /auth/refresh"
  /\ resp.status = 200
  /\ resp.cred.token.iat < clock
  /\ resp.data.token.iat = clock

\* the bearer token t passes the authentication middleware
Accepted(t) == authenticateToken([scheme |-> "Bearer", token |-> t]).next

\* the refresh token t would be honoured by POST /auth/refresh
Refreshable(t) ==
  verifyRefreshToken(t).err = "none" /\ findById(t.userId) # {}

\* C8: a logout and a successful refresh leave the identity store and every
\* other server variable as they were, and every token issued before is
\* accepted, or refused, exactly as before.
C8_LogoutAndRefreshKeepTokens ==
  [][ (Answered /\ (resp'.handler = "logout"
                     \/ (resp'.handler = "refreshToken" /\ resp'.status = 200))) =>
        /\ users' = users
        /\ UNCHANGED <<rest, nextId, clock, shipments, nextShipmentId>>
        /\ UNCHANGED <<weightEntries, nextEntryId, saving>>
        /\ issued \subseteq issued'
        /\ \A t \in issued :
             /\ Accepted(t) <=> Accepted(t)'
             /\ Refreshable(t) <=> Refreshable(t)'
    ]_vars

\* C8 witness: a refresh has returned a new pair and the refresh token it
\* was given is still honoured
C8_Witness ==
  /\ resp.handler = "refreshToken"
  /\ resp.status = 200
  /\ resp.cred.token.iat < resp.data.refreshToken.iat
  /\ resp.cred.token \in issued
  /\ Refreshable(resp.cred.token)

\* the identity u was registered with this password
RegisteredWith(u, password) ==
  \E salt \in Salts : u.passwordHash = hashPassword(password, salt)

\* data is an auth response for identity u
AuthResponseFor(data, u) ==
  /\ data.kind = "auth"
  /\ data.user.id = u._id /\ data.user.email = u.email /\ data.user.role = u.role
  /\ data.token.userId = u._id /\ data.token.sig = Secret /\ data.token.exp > clock
  /\ data.refreshToken.userId = u._id /\ data.refreshToken.sig = Secret

\* C9: a successful registration returns tokens of the identity it created;
\* a login with the email and password of a registered identity succeeds
\* and returns tokens of that identity; an unexpired token of an identity in
\* the store passes the middleware of GET /auth/me; and the profile returned
\* has the id, email and role of that identity.
C9_RegisterLoginProfileRoundTrip ==
  [][ /\ (Answered /\ resp'.handler = "register" /\ resp'.status = 201) =>
           \E u \in users' \ users :
             /\ u.email = emailSetter(resp'.cred.email)
             /\ RegisteredWith(u, resp'.cred.password)
             /\ AuthResponseFor(resp'.data, u)
      /\ (Answered /\ resp'.handler = "login") =>
           \A u \in users :
             (u.email = emailSetter(resp'.cred.email)
                /\ RegisteredWith(u, resp'.cred.password)) =>
               resp'.status = 200 /\ AuthResponseFor(resp'.data, u)
      /\ (Answered /\ resp'.route = "GET /auth/me" /\ resp'.handler = "none") =>
           ~ValidBearer(resp'.cred)
      /\ (Answered /\ resp'.handler = "getProfile") =>
           \A u \in users :
             u._id = resp'.cred.token.userId =>
               /\ resp'.status = 200
               /\ resp'.data.user.id = u._id
               /\ resp'.data.user.email = u.email
               /\ resp'.data.user.role = u.role
    ]_vars

\* C9 witness: the profile is returned for an identity registered as admin
\* that holds the tokens of its registration and of a later login
C9_Witness ==
  /\ resp.handler = "getProfile"
  /\ resp.status = 200
  /\ Cardinality({t \in issued : t.userId = resp.data.user.id}) >= 4
  /\ resp.data.user.role = "admin"

HasPasswordHash(record) == "passwordHash" \in DOMAIN record

\* C10: no response body and no req.user carries a passwordHash.
C10_PasswordHashNeverLeaves ==
  /\ \A v \in resp.user : ~HasPasswordHash(v)
  /\ \A req \in inflight : \A v \in req.user : ~HasPasswordHash(v)
  /\ ~HasPasswordHash(resp.data)
  /\ resp.data.kind \in {"auth", "user"} => ~HasPasswordHash(resp.data.user)
  /\ resp.data.kind = "auth" =>
       ~HasPasswordHash(resp.data.token) /\ ~HasPasswordHash(resp.data.refreshToken)
  /\ resp.data.kind = "shipments" => \A s \in resp.data.items : ~HasPasswordHash(s)

\* C10 witness: the profile of a stored identity, which holds a password
\* hash, has been returned to a request with req.user set
C10_Witness ==
  /\ resp.handler = "getProfile"
  /\ resp.status = 200
  /\ resp.user # {}
  /\ \E u \in users : u._id = resp.data.user.id /\ HasPasswordHash(u)

\* ------------------------------------------------ weight entries, shipments

WeightByIdHandlers == {"getWeightEntry", "updateWeightEntry", "deleteWeightEntry"}

\* C11: a read-one, update or delete by an authenticated identity naming a
\* valid id that is not the id of one of its own entries -- whether another
\* identity's entry has that id or no entry has -- is answered by the one 404
\* 'Weight entry not found' response the request determines, never 403, and
\* the weight-entry store is left as it was.
C11_ForeignEntryLooksAbsent ==
  [][ (Answered /\ resp'.handler \in WeightByIdHandlers) =>
        \A caller \in resp'.user :
          LET id == resp'.params.id
          IN  (isValid(id) /\ \A e \in weightEntries : e._id = id => e.userId # caller.id) =>
                /\ resp' = WeightResponse(resp'.handler, resp'.route, resp'.cred, caller,
                                          [id |-> id], 404, "Weight entry not found", NoEntry)
                /\ resp'.status # 403
                /\ weightEntries' = weightEntries
    ]_vars

\* C11 witness: a request by id was answered 404 while the entry with that
\* id exists and belongs to another identity
C11_Witness ==
  /\ resp.handler \in WeightByIdHandlers
  /\ resp.status = 404
  /\ \E e \in weightEntries : \E caller \in resp.user :
       e._id = resp.params.id /\ e.userId # caller.id

\* C12: an admin identity's read-one, update or delete of an existing weight
\* entry succeeds, whoever owns the entry.
C12_AdminBypassesOwnership ==
  [][ (Answered /\ resp'.handler \in WeightByIdHandlers) =>
        \A caller \in resp'.user :
          (caller.role = "admin" /\ \E e \in weightEntries : e._id = resp'.params.id) =>
            resp'.status = 200
    ]_vars

\* the credential is a token the server signed for a stored identity that
\* is not an admin
NonAdminBearer(cred) ==
  /\ cred.scheme = "Bearer"
  /\ cred.token \in issued
  /\ \E u \in users : u._id = cred.token.userId /\ u.role # "admin"

\* C13: a shipment list returned to a non-admin identity holds only that
\* identity's shipments, and its update or delete of another identity's
\* shipment is answered 404 and leaves the shipment as it was.
C13_ShipmentsScopedToCaller ==
  [][ (Answered /\ NonAdminBearer(resp'.cred)) =>
        LET callerId == resp'.cred.token.userId
        IN  /\ resp'.handler = "getAllShipments" =>
                 \A s \in resp'.data.items : s.userId = callerId
            /\ resp'.handler \in {"updateShipment", "deleteShipment"} =>
                 \A s \in shipments : s.userId # callerId => s \in shipments'
    ]_vars

\* C14: a record stored by a create request of an authenticated identity
\* carries that identity's id as userId, whatever userId the body names.
C14_CreateStampsCaller ==
  [][ /\ (Answered /\ resp'.handler = "createShipment" /\ resp'.cred.scheme = "Bearer"
            /\ resp'.cred.token \in issued) =>
           \A s \in shipments' \ shipments : s.userId = resp'.cred.token.userId
      /\ (Answered /\ resp'.handler = "createWeightEntry") =>
           \A e \in weightEntries' \ weightEntries : \E caller \in resp'.user :
             e.userId = caller.id
    ]_vars

\* C15: a weight-entry create by an identity that already has an entry with
\* the request's recordedAt is answered 409 and stores nothing; any other
\* create is answered 201 and stores exactly one entry, of the caller, with
\* that recordedAt -- also when another identity has an entry for it.
C15_DuplicateDateRejected ==
  [][ (Answered /\ resp'.handler = "createWeightEntry") =>
        \A caller \in resp'.user :
          LET recordedAt == OrDefault(resp'.params.recordedAt, clock)
              duplicate == \E e \in weightEntries :
                             e.userId = caller.id /\ e.recordedAt = recordedAt
          IN  /\ duplicate =>
                   /\ resp'.status = 409
                   /\ weightEntries' = weightEntries
                   /\ nextEntryId' = nextEntryId
              /\ ~duplicate =>
                   /\ resp'.status = 201
                   /\ \E e \in weightEntries' \ weightEntries :
                        /\ weightEntries' = weightEntries \cup {e}
                        /\ e.userId = caller.id
                        /\ e.recordedAt = recordedAt
    ]_vars

\* C15 witness: an identity's second create for a date is turned down with
\* 409 while it and another identity each hold an entry for that date
C15_Witness ==
  /\ resp.handler = "createWeightEntry"
  /\ resp.status = 409
  /\ \E caller \in resp.user : \E mine, other \in weightEntries :
       /\ mine.userId = caller.id
       /\ other.userId # caller.id
       /\ mine.recordedAt = OrDefault(resp.params.recordedAt, clock)
       /\ other.recordedAt = mine.recordedAt

\* C16: no two stored weight entries of one identity have the same
\* recordedAt.
C16_OneEntryPerDate ==
  \A e1, e2 \in weightEntries :
    (e1 # e2 /\ e1.userId = e2.userId) => e1.recordedAt # e2.recordedAt

\* Math.ceil(total / limit)
ceil(total, limit) == (total + limit - 1) \div limit

\* the limits a client pages with
PageLimits == {1, 2, DefaultLimit}

\* C17: for the entries of an identity as they stand, a limit and a sort
\* field, the pages 1..ceil(N/limit), each cut from an order the sorted
\* query may return, hold every entry of the identity exactly once, nothing
\* else, and at most limit items each.
C17_PagesPartitionEntries ==
  \A u \in users : \A limit \in PageLimits : \A sortBy \in {"recordedAt", "weight", "createdAt"} :
    LET mine == findByUser(u._id)
        pages == 1..ceil(Cardinality(mine), limit)
    IN  \A returned \in [pages -> Sorted(mine, sortBy)] :
          LET items(p) == SkipLimit(returned[p], (p - 1) * limit, limit)
          IN  /\ \A p \in pages : Len(items(p)) <= limit
              /\ \A p \in pages : \A i \in 1..Len(items(p)) : items(p)[i] \in mine
              /\ \A e \in mine :
                   Cardinality({pi \in pages \X (1..limit) :
                                  pi[2] <= Len(items(pi[1])) /\ items(pi[1])[pi[2]] = e}) = 1

\* calculatePagination(page, limit, total)
calculatePagination(page, limit, total) ==
  LET totalPages == ceil(total, limit)
  IN  [page |-> page, limit |-> limit, total |-> total, totalPages |-> totalPages,
       hasNext |-> page < totalPages, hasPrev |-> page > 1]

\* C18: a successful weight-entry list response carries the pagination
\* metadata computed from the page, the limit and the number of entries of
\* the caller.
C18_ListCarriesPagination ==
  (resp.handler = "getWeightEntries" /\ resp.status = 200) =>
    /\ "pagination" \in DOMAIN resp
    /\ \A caller \in resp.user :
         resp.pagination =
           calculatePagination(OrDefault(resp.params.page, DefaultPage),
                               OrDefault(resp.params.limit, DefaultLimit),
                               Cardinality(findByUser(caller.id)))

\* isInt({ min: 1, max: 100 }) of the limit query parameter
MaxLimit == 100

\* isIn(['weight', 'recordedAt', 'createdAt']) of the sortBy query parameter
SortAllowList == {"weight", "recordedAt", "createdAt"}

\* C19: the weight-entry list query runs only for page >= 1, a limit in
\* 1..100 and a sortBy of the allow-list, and returns at most 100 items.
C19_ListQueryValidated ==
  (resp.handler = "getWeightEntries" /\ resp.status = 200) =>
    /\ OrDefault(resp.params.page, DefaultPage) >= 1
    /\ OrDefault(resp.params.limit, DefaultLimit) \in 1..MaxLimit
    /\ OrDefault(resp.params.sortBy, "recordedAt") \in SortAllowList
    /\ Len(resp.data.items) <= MaxLimit

\* C20: a successful weight-entry update gives each of weight, recordedAt and
\* notes that the body holds the body's value, and leaves every absent one,
\* the entry's _id, userId and createdAt, and every other entry as they were.
C20_UpdateTouchesOnlyPresentFields ==
  [][ (Answered /\ resp'.handler = "updateWeightEntry" /\ resp'.status = 200) =>
        \E before \in weightEntries : \E after \in weightEntries' :
          /\ before._id = resp'.params.id
          /\ after._id = before._id
          /\ after.userId = before.userId
          /\ after.createdAt = before.createdAt
          /\ weightEntries' \ {after} = weightEntries \ {before}
          /\ after.weight = OrDefault(resp'.params.weight, before.weight)
          /\ after.recordedAt = OrDefault(resp'.params.recordedAt, before.recordedAt)
          /\ after.notes = IF resp'.params.notes = {} THEN before.notes ELSE resp'.params.notes
    ]_vars

\* C20 witness: an update that named only a new weight has been applied to
\* an entry that keeps the notes it had
C20_Witness ==
  /\ resp.handler = "updateWeightEntry"
  /\ resp.status = 200
  /\ resp.params.weight # {}
  /\ resp.params.notes = {}
  /\ resp.params.recordedAt = {}
  /\ \E e \in weightEntries :
       e._id = resp.params.id /\ e.notes # {} /\ e.weight = ValueOf(resp.params.weight)

\* C22: a failure raised by an auth handler is answered with the status of
\* its ApiError: a register for an email already in the store is answered 409
\* and stores nothing, and a refresh whose token does not verify, or whose
\* identity is gone, is answered 401.
C22_AuthFailureCarriesErrorStatus ==
  [][ Answered =>
        /\ (resp'.handler = "register" /\ findOne(resp'.cred.email) # {}) =>
             (resp'.status = 409 /\ users' = users)
        /\ (resp'.handler = "refreshToken" /\ resp'.cred.token # NoToken
              /\ ~Refreshable(resp'.cred.token)) =>
             resp'.status = 401
    ]_vars

\* t was handed out as an access token (signed with JWT_EXPIRES_IN)
IsAccessToken(t) == t \in issued /\ t.exp = t.iat + AccessTtl

\* t was handed out as a refresh token (signed with REFRESH_TOKEN_EXPIRES_IN)
IsRefreshToken(t) == t \in issued /\ t.exp = t.iat + RefreshTtl

\* C29: the two token flavours are not interchangeable: no request whose
\* bearer credential is a refresh token gets past the authentication
\* middleware, and no POST /auth/refresh given an access token is answered
\* with a new token pair.
C29_TokenFlavoursNotInterchangeable ==
  [][ /\ Passed => \A r \in inflight' : ~IsRefreshToken(r.cred.token)
      /\ (Answered /\ resp'.handler = "refreshToken"
            /\ IsAccessToken(resp'.cred.token)) => resp'.status # 200
    ]_vars

C30_UpdatesKeepOwner ==
  [][ /\ \A e \in weightEntries : \A f \in weightEntries' :
           f._id = e._id => f.userId = e.userId
      /\ \A m \in medications : \A n \in medications' :
           n._id = m._id => n.userId = m.userId
      /\ \A s \in shipments : \A t \in shipments' :
           t._id = s._id => t.userId = s.userId
    ]_vars

\* C25: server.listen is called only when the database connection has been
\* established: whenever the server starts listening, the connection is open,
\* also when the first attempt failed and a retry was scheduled.
C25_ListenOnlyWhenConnected ==
  [][ (server # "listening" /\ server' = "listening") => readyState' = 1 ]_vars

\* the delay in milliseconds of the retry scheduled by the k-th failure
RetryDelayOf(k) ==
  CASE k = 1 -> 5000
    [] k = 2 -> 10000
    [] k = 3 -> 20000
    [] OTHER -> 40000

\* C26: connectionAttempts never exceeds MAX_RETRY_ATTEMPTS and no connect
\* is started once it has reached it, whatever the order in which retry and
\* reconnect timers fire; the k-th failure in a row, k < 5, schedules one
\* retry after 5000 * 2^(k-1) ms; an established connection resets the
\* counter to 0.
C26_AttemptsBounded ==
  [][ /\ connectionAttempts' <= MAX_RETRY_ATTEMPTS
      /\ connectionAttempts >= MAX_RETRY_ATTEMPTS => InFlight' <= InFlight
      /\ (connectionAttempts' = connectionAttempts + 1
            /\ connectionAttempts' < MAX_RETRY_ATTEMPTS) =>
           timers' = timers (+) SetToBag({Timer("retry", RetryDelayOf(connectionAttempts'))})
      /\ (readyState # 1 /\ readyState' = 1) => connectionAttempts' = 0
    ]_vars

\* C27: at most one mongoose.connect is awaited at any time, and
\* isConnecting is true exactly while one is.
C27_OneAttemptInFlight ==
  /\ InFlight <= 1
  /\ isConnecting <=> InFlight = 1

\* the invocations of gracefulShutdown in the given phases
InPhase(phases) == {i \in DOMAIN shutdowns : shutdowns[i].phase \in phases}

\* C28: once a SIGTERM or SIGINT has been received the process terminates.
\* The database is closed only by an invocation whose server.close has
\* completed, so only after the HTTP server has closed; the process exits 0
\* exactly when an invocation has closed both the server and the database,
\* and exits 1 exactly when an invocation met an error in either step or its
\* force timer fired -- with one signal or with a second one arriving while
\* a shutdown is in progress.
C28_ShutdownTerminates ==
  /\ [](InPhase({"dbClosing", "done"}) # {} => server = "closed")
  /\ [](exitCode = {0} <=> InPhase({"done"}) # {})
  /\ [](InPhase({"done"}) # {} => server = "closed" /\ readyState = 0)
  /\ [](exitCode = {1} <=> InPhase({"failed", "forced"}) # {})
  /\ [](exitCode \in {Running, {0}, {1}})
  /\ (shutdowns # <<>>) ~> (exitCode # Running)

\* a second signal arrived while the first shutdown was closing the
\* database, and the process has exited
C28_Witness ==
  /\ Len(shutdowns) = 2
  /\ exitCode # Running
  /\ InPhase({"done", "failed", "forced"}) # {}
  /\ server = "closed"

\* a duration setting of the form <integer><s|m|h|d>
WellFormed(expiresIn) == expiresIn.value # {} /\ expiresIn.unit \in Units

\* the request answered in this step passed every check of its handler that
\* comes before the auth response is built
Granted ==
  \/ resp'.handler = "register" /\ users' # users
  \/ /\ resp'.handler = "login"
     /\ \E u \in findOne(resp'.cred.email) :
          comparePassword(resp'.cred.password, u.passwordHash)
  \/ /\ resp'.handler = "refreshToken"
     /\ resp'.cred.token # NoToken
     /\ verifyRefreshToken(resp'.cred.token).err = "none"
     /\ findById(verifyRefreshToken(resp'.cred.token).payload.userId) # {}

\* C24: a process whose JWT_EXPIRES_IN or REFRESH_TOKEN_EXPIRES_IN is not of
\* the form <integer><s|m|h|d> never gets past loading its configuration,
\* and every register, login or refresh request that passed its handler's
\* checks is answered with its token pair: none fails on the duration.
C24_MalformedDurationFatalAtStartup ==
  /\ [](config # NotLoaded =>
          WellFormed(env.JWT_EXPIRES_IN) /\ WellFormed(env.REFRESH_TOKEN_EXPIRES_IN))
  /\ [][ (Answered /\ Granted) => resp'.status \in {200, 201} ]_vars

\* the response body carries the text or the stack of the store's error
Leaks(r) ==
  /\ r.data.kind = "error"
  /\ r.data.message = StoreError.message \/ r.data.stack # {}

\* C23: a request during which a store operation rejected is answered with
\* status 500, and no response body carries the text of the store's error
\* or its stack.
C23_StoreFaultsAnswerGeneric500 ==
  [][ /\ storeFault => resp'.status = 500
      /\ Answered => ~Leaks(resp')
    ]_vars

====
